---- MODULE Spec2Model ----
(***************************************************************************)
(* State-machine model of the form components of MFarm-UI:                 *)
(*   IncomeForm   (Components/Common/IncomeForm.tsx)                       *)
(*   SupplierForm (Components/Common/SupplierForm.tsx)                     *)
(*   ViewProducts (pages/Products/ViewProducts.tsx), with the ProductForm  *)
(*                rendered in its modals                                   *)
(*                                                                         *)
(* Encoding of values                                                      *)
(*   - text fields are strings, "" is the empty input;                     *)
(*   - supplier ids are the numbers 1..NumSuppliers, 0 is the empty        *)
(*     string '' of the select's placeholder option and also stands for    *)
(*     the null of selectedSupplier;                                       *)
(*   - prices are counted in tenths of the currency unit, totals in        *)
(*     hundredths.  With one decimal digit the exact value of              *)
(*     subtotal * 1.18 never lies halfway between two hundredths, so the   *)
(*     double computed by the code and the exact product round to the      *)
(*     same hundredth (Number.prototype.toFixed rounds the double to the   *)
(*     nearest);                                                           *)
(*   - NaN is the result of multiplying with a missing (undefined)         *)
(*     quantity or price.                                                  *)
(*                                                                         *)
(* React scheduling: an event handler or a promise continuation is one     *)
(* step; the effects whose dependencies it changed are flushed, in         *)
(* declaration order, before the next handler or continuation runs         *)
(* (variable pending).                                                     *)
(***************************************************************************)
EXTENDS Integers, Sequences, FiniteSets, TLC

\* ------------------------------------------------------------------ bounds
MaxItems == 2        \* line items in one selection of the SelectTable
MaxQty == 2          \* largest quantity of a line item
MaxPrice == 2        \* largest unit price, in tenths
NumSuppliers == 3    \* supplier ids 1..NumSuppliers
MaxSubmits == 2      \* records handed to onSubmit in one run
MaxTimers == 2       \* setTimeout callbacks pending at once
MaxCalls == 2        \* handleCreateSupplier calls in flight at once
NumProducts == 2     \* product codes 1..NumProducts
MaxRequests == 2     \* requests of ViewProducts in flight at once
NumRecords == 2      \* incomes and outcomes 1..NumRecords of the backend
MaxVisits == 2       \* times a details page is opened

NaN == 0 - 1
NoSupplier == 0

\* --------------------------------------------------------------- variables
VARIABLES
    initialValues,    \* formik.initialValues of the form on the top level
    root,             \* the component on the screen: "IncomeForm" | "SupplierForm" |
                      \* "ViewProducts" | "IncomeDetails" | "OutcomeDetails" |
                      \* "list" | "closed"
    values,           \* formik.values of IncomeForm
    isSubmitting,     \* formik.isSubmitting of IncomeForm
    errors,           \* formik.errors of IncomeForm: the set of invalid field paths
    validated,        \* the validation runs of submitForm in flight: the values
                      \* under validation and the answer on its way to the id lookup
    handed,           \* the records of the onSubmit calls whose promise is pending
    outcomes,         \* how the onSubmit promises settled: "resolved" | "rejected"
    cancelModalOpen,  \* useState cancelModalOpen of IncomeForm
    cancelled,        \* the onCancel prop has been called
    suppliers,        \* useState suppliers: the cached list
    selectedSupplier, \* useState selectedSupplier
    display,          \* what the five disabled supplier inputs show (DOM value)
    modals,           \* useState modals
    alertConfig,      \* useState alertConfig
    timers,           \* number of pending setTimeout callbacks of IncomeForm
    db,               \* backend: the active suppliers, in list order
    mountFetch,       \* the fetchSuppliers call of the mount effect
    calls,            \* handleCreateSupplier calls in flight
    pending,          \* effects whose dependencies changed in the last render
    sf,               \* the mounted SupplierForm instance
    vp,               \* the state of the page ViewProducts
    dt                \* the state of the pages IncomeDetails and OutcomeDetails,
                      \* the module-level incomeAttributes and their requests

incomeVars == <<values, isSubmitting, errors, validated, handed, outcomes,
                cancelModalOpen, cancelled>>
supplierVars == <<suppliers, selectedSupplier, display, modals, alertConfig, timers,
                  db, mountFetch, calls>>
vars == <<initialValues, root, incomeVars, supplierVars, pending, sf, vp, dt>>

\* ------------------------------------------------- Derived-Total Calculator
\* product.quantity * product.price || 0
\* A missing operand makes the product NaN, and NaN || 0 is 0.
Contribution(product) ==
    IF product.quantity = NaN \/ product.price = NaN
    THEN 0
    ELSE product.quantity * product.price

\* mutant of Subtotal: sum + product.quantity * product.price || 0 without the
\* parentheses, so that an incomplete item resets the sum collected so far
RECURSIVE SubtotalResetByNaN(_)
SubtotalResetByNaN(products) ==
    IF products = <<>>
    THEN 0
    ELSE IF products[Len(products)].quantity = NaN \/ products[Len(products)].price = NaN
    THEN 0
    ELSE SubtotalResetByNaN(SubSeq(products, 1, Len(products) - 1))
         + Contribution(products[Len(products)])

\* formik.values.products.reduce((sum, product) => sum + (...), 0), in tenths
RECURSIVE Subtotal(_)
Subtotal(products) ==
    IF products = <<>>
    THEN 0
    ELSE Subtotal(SubSeq(products, 1, Len(products) - 1))
         + Contribution(products[Len(products)])

\* subtotal * 1.18, in thousandths
TotalWithTax(subtotal) == subtotal * 118

\* mutant of ToFixed2: the digits after the second decimal are cut off
ToFixed2Truncating(thousandths) == thousandths \div 10

\* parseFloat(totalWithTax.toFixed(2)), in hundredths: the nearest hundredth,
\* the larger one when two are equally near
ToFixed2(thousandths) == (thousandths + 5) \div 10

DerivedTotal(products) == ToFixed2(TotalWithTax(Subtotal(products)))

\* ------------------------------------------------------------ IncomeForm
\* the literal passed to useFormik when no initialData is given
InitialValues ==
    [id |-> "", warehouse |-> "AG001", date |-> "", products |-> <<>>,
     totalPrice |-> 0, incomeType |-> "",
     origin |-> [originType |-> "supplier", id |-> NoSupplier],
     documents |-> <<>>, status |-> TRUE]

\* backend: the income ids for which income_id_exists answers true
ExistingIncomeIds == {"INC-1"}
IncomeIds == {"", "INC-1", "INC-2"}
IncomeTypes == {"", "purchase"}

Quantities == {NaN} \cup (1..MaxQty)
Prices == {NaN} \cup (0..MaxPrice)
LineItems == [quantity : Quantities, price : Prices]
\* what the SelectTable can emit through onProductSelect
Selections == UNION {[1..n -> LineItems] : n \in 0..MaxItems}
\* the selections the SelectTable can emit next: one row added, removed or edited
RowChanges(selection) ==
    {Append(selection, item) : item \in {i \in LineItems : Len(selection) < MaxItems}}
    \cup {SubSeq(selection, 1, i - 1) \o SubSeq(selection, i + 1, Len(selection)) :
             i \in 1..Len(selection)}
    \cup {[selection EXCEPT ![i] = item] : i \in 1..Len(selection), item \in LineItems}
\* the selections used where the line items are not what is examined
FewSelections == {<<>>, <<[quantity |-> MaxQty, price |-> MaxPrice]>>}

\* a persisted income handed in as initialData; its stored totalPrice need
\* not be the derived total of its products
PersistedIncome(stored) ==
    [id |-> "INC-1", warehouse |-> "AG001", date |-> "1/1/2025",
     products |-> <<[quantity |-> 1, price |-> MaxPrice]>>,
     totalPrice |-> stored, incomeType |-> "purchase",
     origin |-> [originType |-> "supplier", id |-> 1],
     documents |-> <<>>, status |-> TRUE]

\* mutant of SyncErrors: products is Yup.array().min(1)
SyncErrorsMinOneProduct(v) ==
    {p \in {"id", "date", "totalPrice", "incomeType", "origin.id", "products"} :
        \/ p = "id" /\ v.id = ""
        \/ p = "date" /\ v.date = ""
        \/ p = "totalPrice" /\ v.totalPrice < 0
        \/ p = "incomeType" /\ v.incomeType = ""
        \/ p = "origin.id" /\ v.origin.id = NoSupplier
        \/ p = "products" /\ v.products = <<>>}

\* validationSchema without the asynchronous unique_id test: the paths whose
\* synchronous rules fail.  Yup.array().required() rejects a missing array,
\* and documents is always an array.
SyncErrors(v) ==
    {p \in {"id", "date", "totalPrice", "incomeType", "origin.id"} :
        \/ p = "id" /\ v.id = ""
        \/ p = "date" /\ v.date = ""
        \/ p = "totalPrice" /\ v.totalPrice < 0
        \/ p = "incomeType" /\ v.incomeType = ""
        \/ p = "origin.id" /\ v.origin.id = NoSupplier}

\* mutant of UniqueIdFails: the answer is returned without the negation
UniqueIdFailsInverted(value, lookup) ==
    IF value = "" THEN TRUE
    ELSE IF lookup = "failed" THEN TRUE
    ELSE lookup = "free"

\* mutant of UniqueIdFails: a lookup that throws lets the id pass
UniqueIdFailsOpen(value, lookup) ==
    IF value = "" THEN TRUE
    ELSE IF lookup = "failed" THEN FALSE
    ELSE lookup = "exists"

\* the unique_id test: lookup is "none" when no request is issued (empty
\* value), "failed" when the request throws, else the backend's answer
UniqueIdFails(value, lookup) ==
    IF value = "" THEN TRUE
    ELSE IF lookup = "failed" THEN TRUE
    ELSE lookup = "exists"

ValidationErrors(v, lookup) ==
    SyncErrors(v) \cup (IF UniqueIdFails(v.id, lookup) THEN {"id"} ELSE {})

\* suppliers.find((s) => s.id === supplierId) || null
RECURSIVE Find(_, _)
Find(list, supplierId) ==
    IF list = <<>> THEN NoSupplier
    ELSE IF Head(list) = supplierId THEN Head(list)
    ELSE Find(Tail(list), supplierId)

DisplayFields == {"address", "email", "rnc", "phone_number", "supplier_type"}

\* <Input value={selectedSupplier?.field} disabled>: React writes the DOM
\* value only when the value prop is not undefined
Render(shown, supplier) ==
    [f \in DisplayFields |-> IF supplier # NoSupplier THEN supplier ELSE shown[f]]

\* a modal lies over the form: the form's controls cannot be operated
Overlay == cancelModalOpen \/ modals.createSupplier \/ modals.createProduct

\* mutant of ButtonsDisabled: the buttons stay enabled while submitting
ButtonsNeverDisabled == FALSE

\* disabled={formik.isSubmitting} of the submit and the cancel button
ButtonsDisabled == isSubmitting

\* formik.submitForm: onSubmit is executed when the errors are empty
IsActuallyValid(errs) == errs = {}

\* the effect to run next: the first pending one in declaration order
NextEffect ==
    IF "mount" \in pending THEN "mount"
    ELSE IF "supplier" \in pending THEN "supplier"
    ELSE IF "total" \in pending THEN "total"
    ELSE "none"
Settled == pending = {}

\* the effects that depend on formik.values.origin.id or on suppliers
SupplierDependents(originChanged, suppliersChanged) ==
    IF originChanged \/ suppliersChanged THEN {"supplier"} ELSE {}

\* mutant of FetchedSuppliers: the fetched entries are added to the cached ones
MergedSuppliers(cached, fetched) == cached \o fetched

\* setSuppliers(response.data.data): the cached list is replaced
FetchedSuppliers(cached, fetched) == fetched

\* useEffect(() => { fetchProducts(); fetchSuppliers(); }, [])
MountEffect ==
    /\ root = "IncomeForm"
    /\ NextEffect = "mount"
    /\ pending' = pending \ {"mount"}
    /\ mountFetch' = [st |-> "inflight", resp |-> db]
    /\ UNCHANGED <<initialValues, root, incomeVars, suppliers, selectedSupplier, display, modals,
                   alertConfig, timers, db, calls, sf>>
    /\ UNCHANGED <<vp, dt>>

\* useEffect(..., [formik.values.origin.id, suppliers])
SupplierEffect ==
    /\ root = "IncomeForm"
    /\ NextEffect = "supplier"
    /\ pending' = pending \ {"supplier"}
    /\ selectedSupplier' = Find(suppliers, values.origin.id)
    /\ display' = Render(display, selectedSupplier')
    /\ UNCHANGED <<initialValues, root, incomeVars, suppliers, modals, alertConfig, timers, db,
                   mountFetch, calls, sf>>
    /\ UNCHANGED <<vp, dt>>

\* mutant of TotalEffect: the effect depends on formik.values, which its own
\* setFieldValue replaces, so that it is pending again after it has run
TotalEffectRetriggering ==
    /\ root = "IncomeForm"
    /\ NextEffect = "total"
    /\ pending' = pending
    /\ values' = [values EXCEPT !.totalPrice = DerivedTotal(values.products)]
    /\ UNCHANGED <<initialValues, root, isSubmitting, errors, validated, handed, outcomes,
                   cancelModalOpen, cancelled, supplierVars, sf>>
    /\ UNCHANGED <<vp, dt>>

\* useEffect(..., [formik.values.products])
TotalEffect ==
    /\ root = "IncomeForm"
    /\ NextEffect = "total"
    /\ pending' = pending \ {"total"}
    /\ values' = [values EXCEPT !.totalPrice = DerivedTotal(values.products)]
    /\ UNCHANGED <<initialValues, root, isSubmitting, errors, validated, handed, outcomes,
                   cancelModalOpen, cancelled, supplierVars, sf>>
    /\ UNCHANGED <<vp, dt>>

\* mutant of ProductsDependents: the recompute effect misses its dependency
NoProductsDependents == {}

\* the effects that depend on formik.values.products
ProductsDependents == {"total"}

\* handleProductSelect: formik.setFieldValue("products", selectedProducts)
HandleProductSelect(selectedProducts) ==
    /\ root = "IncomeForm"
    /\ Settled /\ ~Overlay
    /\ values' = [values EXCEPT !.products = selectedProducts]
    /\ pending' = ProductsDependents
    /\ UNCHANGED <<initialValues, root, isSubmitting, errors, validated, handed, outcomes,
                   cancelModalOpen, cancelled, supplierVars, sf>>
    /\ UNCHANGED <<vp, dt>>

\* mutant of ShownAlert: the alert is configured but not made visible
ConfiguredAlert(color) == [visible |-> FALSE, color |-> color]

\* handleError / the success branch: setAlertConfig({visible: true, color, ...})
ShownAlert(color) == [visible |-> TRUE, color |-> color]

\* setTimeout(() => setAlertConfig({ ...alertConfig, visible: false }), 5000):
\* the callback hides whatever alert is shown.  The color and the message it
\* writes back are those of an older render; nothing is rendered from them
\* while the alert is hidden, and they are kept as "" here.
HiddenAlert == [visible |-> FALSE, color |-> ""]

\* a pending timeout fires
TimerFires ==
    /\ root = "IncomeForm"
    /\ Settled
    /\ timers > 0
    /\ alertConfig' = HiddenAlert
    /\ timers' = timers - 1
    /\ UNCHANGED <<initialValues, root, incomeVars, suppliers, selectedSupplier, display, modals,
                   db, mountFetch, calls, pending, sf>>
    /\ UNCHANGED <<vp, dt>>

\* fetchSuppliers, called by the mount effect, settles
MountFetchDone(ok) ==
    /\ root = "IncomeForm"
    /\ Settled
    /\ mountFetch.st = "inflight"
    /\ mountFetch' = [mountFetch EXCEPT !.st = "done"]
    /\ IF ok
       THEN /\ suppliers' = FetchedSuppliers(suppliers, mountFetch.resp)
            /\ pending' = SupplierDependents(FALSE, TRUE)
            /\ UNCHANGED <<alertConfig, timers>>
       ELSE /\ timers < MaxTimers
            /\ alertConfig' = ShownAlert("danger")
            /\ timers' = timers + 1
            /\ UNCHANGED <<suppliers, pending>>
    /\ UNCHANGED <<initialValues, root, incomeVars, selectedSupplier, display, modals, db, calls, sf>>
    /\ UNCHANGED <<vp, dt>>

\* formik.handleChange of the id input and of the incomeType select
HandleChange(field, value) ==
    /\ root = "IncomeForm"
    /\ Settled /\ ~Overlay
    /\ field \in {"id", "incomeType"}
    /\ values' = [values EXCEPT ![field] = value]
    /\ UNCHANGED <<initialValues, root, isSubmitting, errors, validated, handed, outcomes,
                   cancelModalOpen, cancelled, supplierVars, pending, sf>>
    /\ UNCHANGED <<vp, dt>>

\* Flatpickr onChange: formik.setFieldValue("date", date[0].toLocaleDateString("es-ES"))
HandleDateChange(formattedDate) ==
    /\ root = "IncomeForm"
    /\ Settled /\ ~Overlay
    /\ values' = [values EXCEPT !.date = formattedDate]
    /\ UNCHANGED <<initialValues, root, isSubmitting, errors, validated, handed, outcomes,
                   cancelModalOpen, cancelled, supplierVars, pending, sf>>
    /\ UNCHANGED <<vp, dt>>

\* the options of the supplier select: '' and the ids of the cached list
SupplierOptions == {NoSupplier} \cup {suppliers[i] : i \in 1..Len(suppliers)}

\* handleSupplierChange
HandleSupplierChange(supplierId) ==
    /\ root = "IncomeForm"
    /\ Settled /\ ~Overlay
    /\ selectedSupplier' = Find(suppliers, supplierId)
    /\ values' = [values EXCEPT !.origin.id = supplierId]
    /\ display' = Render(display, selectedSupplier')
    /\ pending' = SupplierDependents(supplierId # values.origin.id, FALSE)
    /\ UNCHANGED <<initialValues, root, isSubmitting, errors, validated, handed, outcomes,
                   cancelModalOpen, cancelled, suppliers, modals, alertConfig, timers,
                   db, mountFetch, calls, sf>>
    /\ UNCHANGED <<vp, dt>>

\* submissions started so far in this run
Submissions == Len(validated) + Len(handed) + Len(outcomes)

\* the answers the id lookup of a validation can get
Lookups(value) ==
    IF value = "" THEN {"none"}
    ELSE {"failed", IF value \in ExistingIncomeIds THEN "exists" ELSE "free"}

\* the submit button: formik.handleSubmit() sets isSubmitting and starts the
\* validation of the current values; the unique_id test sends its request
HandleSubmit ==
    /\ root = "IncomeForm"
    /\ Settled /\ ~Overlay
    /\ ~ButtonsDisabled
    /\ Submissions < MaxSubmits
    /\ isSubmitting' = TRUE
    /\ \E lookup \in Lookups(values.id) :
          validated' = Append(validated, [values |-> values, lookup |-> lookup])
    /\ UNCHANGED <<initialValues, root, values, errors, handed, outcomes, cancelModalOpen, cancelled,
                   supplierVars, pending, sf>>
    /\ UNCHANGED <<vp, dt>>

\* mutant of ValuesAfterSubmit: resetForm() in the finally block
ValuesResetAfterSubmit(current, result) == initialValues

\* the values the onSubmit option leaves in the form when the promise of the
\* onSubmit prop has settled: it never calls resetForm
ValuesAfterSubmit(current, result) == current

\* the validation of a submit attempt completes: with no error formik executes
\* the onSubmit option on the values the form holds now
ValidationDone ==
    /\ root = "IncomeForm"
    /\ Settled
    /\ validated # <<>>
    /\ validated' = Tail(validated)
    /\ errors' = ValidationErrors(Head(validated).values, Head(validated).lookup)
    /\ IF IsActuallyValid(errors')
       THEN /\ isSubmitting' = TRUE
            /\ handed' = Append(handed, values)
       ELSE /\ isSubmitting' = FALSE
            /\ UNCHANGED handed
    /\ UNCHANGED <<initialValues, root, values, outcomes, cancelModalOpen, cancelled, supplierVars,
                   pending, sf>>
    /\ UNCHANGED <<vp, dt>>

\* the promise returned by the onSubmit prop settles: catch logs, finally
\* setSubmitting(false)
OnSubmitSettled(result) ==
    /\ root = "IncomeForm"
    /\ Settled
    /\ handed # <<>>
    /\ handed' = Tail(handed)
    /\ outcomes' = Append(outcomes, result)
    /\ isSubmitting' = FALSE
    /\ values' = ValuesAfterSubmit(values, result)
    /\ UNCHANGED <<initialValues, root, errors, validated, cancelModalOpen, cancelled, supplierVars,
                   pending, sf>>
    /\ UNCHANGED <<vp, dt>>

\* the Cancelar button: setCancelModalOpen(true)
OpenCancelModal ==
    /\ root = "IncomeForm"
    /\ Settled /\ ~Overlay
    /\ ~ButtonsDisabled
    /\ cancelModalOpen' = TRUE
    /\ UNCHANGED <<initialValues, root, values, isSubmitting, errors, validated, handed, outcomes,
                   cancelled, supplierVars, pending, sf>>
    /\ UNCHANGED <<vp, dt>>

\* mutant of DeclineCancel: "No, continuar" also resets the form
DeclineCancelResetting ==
    /\ root = "IncomeForm"
    /\ cancelModalOpen
    /\ cancelModalOpen' = FALSE
    /\ values' = initialValues
    /\ UNCHANGED <<initialValues, root, isSubmitting, errors, validated, handed, outcomes,
                   cancelled, supplierVars, pending, sf>>
    /\ UNCHANGED <<vp, dt>>

\* "No, continuar" or the modal's toggle: the confirmation closes
DeclineCancel ==
    /\ root = "IncomeForm"
    /\ cancelModalOpen
    /\ cancelModalOpen' = FALSE
    /\ UNCHANGED <<initialValues, root, values, isSubmitting, errors, validated, handed, outcomes,
                   cancelled, supplierVars, pending, sf>>
    /\ UNCHANGED <<vp, dt>>

\* "Si, cancelar": onClick={onCancel}; the caller takes the form off the screen
ConfirmCancel ==
    /\ root = "IncomeForm"
    /\ cancelModalOpen
    /\ cancelled' = TRUE
    /\ root' = "closed"
    /\ UNCHANGED <<initialValues, values, isSubmitting, errors, validated, handed, outcomes,
                   cancelModalOpen, supplierVars, pending, sf>>
    /\ UNCHANGED <<vp, dt>>

\* ------------------------------------------------------------ SupplierForm
SupplierInitialValues ==
    [id |-> NoSupplier, name |-> "", address |-> "", phone_number |-> "",
     email |-> "", supplier_type |-> "", status |-> TRUE, rnc |-> ""]

\* no SupplierForm is rendered
NoSupplierForm ==
    [inst |-> 0, mounted |-> FALSE, values |-> SupplierInitialValues,
     isSubmitting |-> FALSE, errors |-> {}, cancelModalOpen |-> FALSE,
     showErrorAlert |-> FALSE, timers |-> 0]

SupplierTexts == {"", "x"}
Emails == {"", "not-an-email", "a@b.do"}
SupplierTypes == {"", "Equipos"}
SupplierIds == 1..NumSuppliers

\* a complete, valid supplier record with the given code
SupplierRecord(code) ==
    [id |-> code, name |-> "x", address |-> "x", phone_number |-> "x",
     email |-> "a@b.do", supplier_type |-> "Equipos", status |-> TRUE, rnc |-> "x"]

\* the drafts one keystroke or one selection away from v
OneFieldChanges(v) ==
    {[v EXCEPT !.id = c] : c \in {NoSupplier} \cup SupplierIds}
    \cup {[v EXCEPT ![f] = t] : f \in {"name", "address", "phone_number", "rnc"},
                                t \in SupplierTexts}
    \cup {[v EXCEPT !.email = e] : e \in Emails}
    \cup {[v EXCEPT !.supplier_type = t] : t \in SupplierTypes}

\* mutant of SupplierErrors: the email rule is required() without email()
SupplierErrorsNoEmailShape(v) ==
    {f \in {"id", "name", "address", "phone_number", "email", "supplier_type", "rnc"} :
        \/ f = "id" /\ v.id = NoSupplier
        \/ f \in {"name", "address", "phone_number", "supplier_type", "rnc", "email"}
           /\ v[f] = ""}

\* validationSchema of SupplierForm: the fields whose rules fail
SupplierErrors(v) ==
    {f \in {"id", "name", "address", "phone_number", "email", "supplier_type", "rnc"} :
        \/ f = "id" /\ v.id = NoSupplier
        \/ f \in {"name", "address", "phone_number", "supplier_type", "rnc"} /\ v[f] = ""
        \/ f = "email" /\ v.email # "a@b.do"}

\* disabled={formik.isSubmitting} of the buttons of SupplierForm
SupplierButtonsDisabled == sf.isSubmitting

\* the instance number of a SupplierForm that is mounted now: one that no
\* call in flight carries
FreshInstance ==
    CHOOSE n \in 1..(Cardinality(calls) + 1) : \A c \in calls : c.inst # n

\* the SupplierForm inside the createSupplier modal after a render in which
\* the modal is open or not: it mounts with the modal and unmounts with it
NestedForm(open) ==
    IF open = sf.mounted THEN sf
    ELSE IF open THEN [NoSupplierForm EXCEPT !.inst = FreshInstance, !.mounted = TRUE]
    ELSE NoSupplierForm

\* toggleModal(modalName, state): state ?? !prev[modalName]
ToggleModal(modalName, state) ==
    [modals EXCEPT ![modalName] = IF state = "undefined" THEN ~modals[modalName]
                                  ELSE state = "true"]

\* formik.handleChange of SupplierForm; validateOnChange is on, so the errors
\* follow the new values
SupplierChange(newValues) ==
    /\ root # "closed"
    /\ sf.mounted /\ ~sf.cancelModalOpen
    /\ Settled
    /\ sf' = [sf EXCEPT !.values = newValues, !.errors = SupplierErrors(newValues)]
    /\ UNCHANGED <<initialValues, root, incomeVars, supplierVars, pending>>
    /\ UNCHANGED <<vp, dt>>

\* the submit button of SupplierForm.  The schema has no asynchronous rule:
\* validation and the call of the onSubmit option are one step.  On the top
\* level the onSubmit prop is the caller's, inside IncomeForm it is
\* handleCreateSupplier, whose first request goes out.
SupplierHandleSubmit ==
    /\ root # "closed"
    /\ sf.mounted /\ ~sf.cancelModalOpen
    /\ Settled
    /\ ~SupplierButtonsDisabled
    /\ IF SupplierErrors(sf.values) = {}
       THEN /\ sf' = [sf EXCEPT !.isSubmitting = TRUE, !.errors = {}]
            /\ IF root = "SupplierForm"
               THEN /\ Submissions < MaxSubmits
                    /\ handed' = Append(handed, sf.values)
                    /\ UNCHANGED calls
               ELSE /\ Cardinality(calls) < MaxCalls
                    /\ calls' = calls \cup {[inst |-> sf.inst, data |-> sf.values.id,
                                             pc |-> "create", resp |-> <<>>]}
                    /\ UNCHANGED handed
       ELSE /\ sf' = [sf EXCEPT !.isSubmitting = FALSE,
                                !.errors = SupplierErrors(sf.values)]
            /\ UNCHANGED <<handed, calls>>
    /\ UNCHANGED <<initialValues, root, values, isSubmitting, errors, validated, outcomes,
                   cancelModalOpen, cancelled, suppliers, selectedSupplier, display,
                   modals, alertConfig, timers, db, mountFetch, pending>>
    /\ UNCHANGED <<vp, dt>>

\* the promise of the caller's onSubmit settles: catch sets the error alert,
\* finally setSubmitting(false) and the timeout that hides the alert
SupplierOnSubmitSettled(result) ==
    /\ root = "SupplierForm"
    /\ handed # <<>>
    /\ sf.timers < MaxTimers
    /\ handed' = Tail(handed)
    /\ outcomes' = Append(outcomes, result)
    /\ sf' = [sf EXCEPT !.isSubmitting = FALSE,
                        !.showErrorAlert = (result = "rejected") \/ sf.showErrorAlert,
                        !.timers = sf.timers + 1]
    /\ UNCHANGED <<initialValues, root, values, isSubmitting, errors, validated, cancelModalOpen,
                   cancelled, supplierVars, pending>>
    /\ UNCHANGED <<vp, dt>>

\* setTimeout(() => setShowErrorAlert(false), 5000) fires
SupplierTimerFires ==
    /\ root # "closed"
    /\ sf.mounted
    /\ sf.timers > 0
    /\ sf' = [sf EXCEPT !.showErrorAlert = FALSE, !.timers = sf.timers - 1]
    /\ UNCHANGED <<initialValues, root, incomeVars, supplierVars, pending>>
    /\ UNCHANGED <<vp, dt>>

\* the Cancelar button of SupplierForm
SupplierOpenCancelModal ==
    /\ root # "closed"
    /\ sf.mounted /\ ~sf.cancelModalOpen
    /\ Settled
    /\ ~SupplierButtonsDisabled
    /\ sf' = [sf EXCEPT !.cancelModalOpen = TRUE]
    /\ UNCHANGED <<initialValues, root, incomeVars, supplierVars, pending>>
    /\ UNCHANGED <<vp, dt>>

\* "No, continuar" or the toggle of the confirmation of SupplierForm
SupplierDeclineCancel ==
    /\ root # "closed"
    /\ sf.mounted /\ sf.cancelModalOpen
    /\ sf' = [sf EXCEPT !.cancelModalOpen = FALSE]
    /\ UNCHANGED <<initialValues, root, incomeVars, supplierVars, pending>>
    /\ UNCHANGED <<vp, dt>>

\* "Si, cancelar" of SupplierForm: the onCancel prop; inside IncomeForm it is
\* () => toggleModal("createSupplier", false)
SupplierConfirmCancel ==
    /\ root # "closed"
    /\ sf.mounted /\ sf.cancelModalOpen
    /\ IF root = "SupplierForm"
       THEN /\ cancelled' = TRUE
            /\ root' = "closed"
            /\ UNCHANGED <<sf, modals>>
       ELSE /\ modals' = ToggleModal("createSupplier", "false")
            /\ sf' = NestedForm(modals'.createSupplier)
            /\ UNCHANGED <<cancelled, root>>
    /\ UNCHANGED <<initialValues, values, isSubmitting, errors, validated, handed, outcomes,
                   cancelModalOpen, suppliers, selectedSupplier, display, alertConfig,
                   timers, db, mountFetch, calls, pending>>
    /\ UNCHANGED <<vp, dt>>

\* ------------------------------------- nested create-supplier flow
\* the "Nuevo Proveedor" button: toggleModal('createSupplier')
OpenCreateSupplier ==
    /\ root = "IncomeForm"
    /\ Settled /\ ~Overlay
    /\ modals' = ToggleModal("createSupplier", "undefined")
    /\ sf' = NestedForm(modals'.createSupplier)
    /\ UNCHANGED <<initialValues, root, incomeVars, suppliers, selectedSupplier, display,
                   alertConfig, timers, db, mountFetch, calls, pending>>
    /\ UNCHANGED <<vp, dt>>

\* the close button of the modal header: toggle={() => toggleModal("createSupplier")}
HeaderToggleCreateSupplier ==
    /\ root = "IncomeForm"
    /\ Settled
    /\ modals.createSupplier /\ ~sf.cancelModalOpen
    /\ modals' = ToggleModal("createSupplier", "undefined")
    /\ sf' = NestedForm(modals'.createSupplier)
    /\ UNCHANGED <<initialValues, root, incomeVars, suppliers, selectedSupplier, display,
                   alertConfig, timers, db, mountFetch, calls, pending>>
    /\ UNCHANGED <<vp, dt>>

InList(list, supplierId) == \E i \in 1..Len(list) : list[i] = supplierId

\* handleCreateSupplier: the create request settles.  The backend accepts a
\* code once.  Accepted: the call goes on to await fetchSuppliers().  Refused
\* or failed: the catch branch, toggleModal('createSupplier') and handleError.
CreateSupplierDone(c, ok) ==
    /\ root = "IncomeForm"
    /\ Settled
    /\ c \in calls /\ c.pc = "create"
    /\ IF ok
       THEN /\ ~InList(db, c.data)
            /\ db' = Append(db, c.data)
            /\ calls' = (calls \ {c}) \cup {[c EXCEPT !.pc = "fetch", !.resp = db']}
            /\ UNCHANGED <<modals, alertConfig, timers, sf>>
       ELSE /\ timers < MaxTimers
            /\ calls' = calls \ {c}
            /\ modals' = ToggleModal("createSupplier", "undefined")
            /\ alertConfig' = ShownAlert("danger")
            /\ timers' = timers + 1
            /\ sf' = NestedForm(modals'.createSupplier)
            /\ UNCHANGED db
    /\ UNCHANGED <<initialValues, root, incomeVars, suppliers, selectedSupplier, display,
                   mountFetch, pending>>
    /\ UNCHANGED <<vp, dt>>

\* mutant of SuppliersRefetched: the continuation is dropped when the
\* SupplierForm that sent the request is no longer mounted
SuppliersRefetchedIfMounted(c, ok) ==
    /\ root = "IncomeForm"
    /\ Settled
    /\ c \in calls /\ c.pc = "fetch"
    /\ timers + (IF ok THEN 1 ELSE 2) <= MaxTimers
    /\ calls' = calls \ {c}
    /\ IF sf.mounted /\ sf.inst = c.inst
       THEN /\ suppliers' = IF ok THEN FetchedSuppliers(suppliers, c.resp) ELSE suppliers
            /\ selectedSupplier' = c.data
            /\ values' = [values EXCEPT !.origin.id = c.data]
            /\ display' = Render(display, selectedSupplier')
            /\ modals' = ToggleModal("createSupplier", "undefined")
            /\ alertConfig' = ShownAlert("success")
            /\ timers' = timers + (IF ok THEN 1 ELSE 2)
            /\ pending' = SupplierDependents(values.origin.id # c.data, ok)
            /\ sf' = NestedForm(modals'.createSupplier)
       ELSE UNCHANGED <<suppliers, selectedSupplier, values, display, modals, alertConfig,
                        timers, pending, sf>>
    /\ UNCHANGED <<initialValues, root, isSubmitting, errors, validated, handed, outcomes,
                   cancelModalOpen, cancelled, db, mountFetch>>
    /\ UNCHANGED <<vp, dt>>

\* handleCreateSupplier after await fetchSuppliers(): the list is replaced or,
\* on failure, handleError has run; then setSelectedSupplier(newSupplier),
\* setFieldValue("origin.id", newSupplier.id), toggleModal, the success alert
\* and its timeout
SuppliersRefetched(c, ok) ==
    /\ root = "IncomeForm"
    /\ Settled
    /\ c \in calls /\ c.pc = "fetch"
    /\ timers + (IF ok THEN 1 ELSE 2) <= MaxTimers
    /\ calls' = calls \ {c}
    /\ suppliers' = IF ok THEN FetchedSuppliers(suppliers, c.resp) ELSE suppliers
    /\ selectedSupplier' = c.data
    /\ values' = [values EXCEPT !.origin.id = c.data]
    /\ display' = Render(display, selectedSupplier')
    /\ modals' = ToggleModal("createSupplier", "undefined")
    /\ alertConfig' = ShownAlert("success")
    /\ timers' = timers + (IF ok THEN 1 ELSE 2)
    /\ pending' = SupplierDependents(values.origin.id # c.data, ok)
    /\ sf' = NestedForm(modals'.createSupplier)
    /\ UNCHANGED <<initialValues, root, isSubmitting, errors, validated, handed, outcomes,
                   cancelModalOpen, cancelled, db, mountFetch>>
    /\ UNCHANGED <<vp, dt>>

\* ------------------------------------------------------------ ViewProducts
\* the page ViewProducts is not on the screen
NoViewProducts == [mounted |-> FALSE]

\* a row of the catalog: { id, name, image, status }; image is the id of the
\* stored file, 0 for a product without one; the other attributes of a
\* product are carried along unchanged by every operation
ProductIds == 1..NumProducts
ProductNames == {"", "a"}
NoProduct == [id |-> 0, name |-> "", image |-> 0, status |-> TRUE]

\* the drafts a ProductForm can hold
ProductDrafts ==
    [id : {0} \cup ProductIds, name : ProductNames, image : {0}, status : {TRUE}]

\* ProductForm (Components/Common/ProductForm): a Form Orchestrator that is in
\* editing or in submitting; no form is rendered in a closed modal
NoProductForm == [mounted |-> FALSE, values |-> NoProduct, isSubmitting |-> FALSE]

\* <ProductForm initialData={...}/> as it mounts
MountedProductForm(initialData) ==
    [mounted |-> TRUE, values |-> initialData, isSubmitting |-> FALSE]

\* the Validation Ruleset of a product: code and name are required
ProductIsValid(v) == v.id # 0 /\ v.name # ""

FormModals == {"create", "update"}
ModalNames == {"create", "details", "update", "delete"}

\* toggleModal(modalName, state) of ViewProducts: state ?? !prev[modalName]
ToggleProductModal(modalName, state) ==
    [vp.modals EXCEPT ![modalName] = IF state = "undefined" THEN ~vp.modals[modalName]
                                     ELSE state = "true"]

\* the ProductForms after a render with the given modals and selectedProduct:
\* a form mounts when its modal opens and unmounts, its draft with it, when
\* the modal closes; the form of the update modal mounts on selectedProduct
ProductForms(newModals, newSelected) ==
    [m \in FormModals |->
        IF newModals[m] = vp.modals[m] THEN vp.forms[m]
        ELSE IF ~newModals[m] THEN NoProductForm
        ELSE IF m = "update" THEN MountedProductForm(newSelected)
        ELSE MountedProductForm(NoProduct)]

\* a modal with a static backdrop covers the page
ProductOverlay == \E m \in ModalNames : vp.modals[m]

\* the rows of the table
ProductRows == {vp.products[i] : i \in 1..Len(vp.products)}

\* the backend's catalog after it has executed a request
RECURSIVE Replaced(_, _)
Replaced(catalog, product) ==
    IF catalog = <<>> THEN <<>>
    ELSE <<IF Head(catalog).id = product.id THEN product ELSE Head(catalog)>>
         \o Replaced(Tail(catalog), product)

RECURSIVE Deactivated(_, _)
Deactivated(catalog, productId) ==
    IF catalog = <<>> THEN <<>>
    ELSE <<IF Head(catalog).id = productId
           THEN [Head(catalog) EXCEPT !.status = FALSE] ELSE Head(catalog)>>
         \o Deactivated(Tail(catalog), productId)

InCatalog(catalog, productId) == \E i \in 1..Len(catalog) : catalog[i].id = productId

Executed(catalog, r) ==
    IF r.kind = "create" THEN Append(catalog, r.data)
    ELSE IF r.kind = "update" THEN Replaced(catalog, r.data)
    ELSE Deactivated(catalog, r.data.id)

\* whether the backend can accept the request: a code is created once, and
\* only a product of the catalog is updated or deactivated
Acceptable(catalog, r) ==
    IF r.kind = "create" THEN ~InCatalog(catalog, r.data.id)
    ELSE InCatalog(catalog, r.data.id)

\* handleFetchProducts() sends its request; the answer is the catalog as the
\* backend holds it then
FetchRequest(n, catalog) ==
    [n |-> n, kind |-> "fetch", data |-> NoProduct, resp |-> catalog]

\* the number of a request that goes out now: one that no request in flight has
FreshRequest ==
    CHOOSE n \in 1..(Cardinality(vp.requests) + 1) : \A r \in vp.requests : r.n # n

\* urlImageProduct: '' or the object URL that URL.createObjectURL made of the
\* file of a download; an object URL that was revoked shows nothing
NoImage == [image |-> 0, revoked |-> FALSE]
ObjectURL(imageId) == [image |-> imageId, revoked |-> FALSE]

\* the effect on [selectedProduct]: after a render in which selectedProduct
\* has changed, URL.revokeObjectURL(urlImageProduct) if it is not ''
RevokeEffect(newSelected) ==
    IF newSelected # vp.selectedProduct /\ vp.urlImageProduct # NoImage
    THEN [vp.urlImageProduct EXCEPT !.revoked = TRUE]
    ELSE vp.urlImageProduct

\* the number of a download that goes out now
FreshDownload ==
    CHOOSE n \in 1..(Cardinality(vp.downloads) + 1) : \A d \in vp.downloads : d.n # n

\* handleError and showAlert of ViewProducts
ProductAlert(color) == [visible |-> TRUE, color |-> color]

\* handleFetchProducts: the request settles
FetchProductsDone(r, ok) ==
    /\ root = "ViewProducts"
    /\ r \in vp.requests /\ r.kind = "fetch"
    /\ IF ok
       THEN vp' = [vp EXCEPT !.requests = @ \ {r}, !.products = r.resp]
       ELSE /\ vp.timers < MaxTimers
            /\ vp' = [vp EXCEPT !.requests = @ \ {r},
                                !.alertConfig = ProductAlert("danger"),
                                !.timers = @ + 1]
    /\ UNCHANGED <<initialValues, root, incomeVars, supplierVars, pending, sf, dt>>

\* the button "Agregar Producto": toggleModal('create')
ClickAddProduct ==
    /\ root = "ViewProducts"
    /\ ~ProductOverlay
    /\ LET newModals == ToggleProductModal("create", "undefined") IN
       vp' = [vp EXCEPT !.modals = newModals,
                        !.forms = ProductForms(newModals, vp.selectedProduct)]
    /\ UNCHANGED <<initialValues, root, incomeVars, supplierVars, pending, sf, dt>>

\* handleClicModal(modal, row) of the three buttons of a row; the buttons for
\* update and delete are disabled on an inactive row.  For details and update
\* the download of the row's image, if it has one, goes out.
HandleClicModal(modal, row) ==
    /\ root = "ViewProducts"
    /\ ~ProductOverlay
    /\ modal \in {"details", "update", "delete"}
    /\ row \in ProductRows
    /\ modal # "details" => row.status
    /\ LET newModals == ToggleProductModal(modal, "undefined")
           fetchesImage == modal \in {"details", "update"} /\ row.image # 0
       IN /\ fetchesImage => Cardinality(vp.downloads) < MaxRequests
          /\ vp' = [vp EXCEPT !.selectedProduct = row,
                              !.modals = newModals,
                              !.forms = ProductForms(newModals, row),
                              !.urlImageProduct = RevokeEffect(row),
                              !.downloads = IF fetchesImage
                                            THEN @ \cup {[n |-> FreshDownload,
                                                          image |-> row.image]}
                                            ELSE @]
    /\ UNCHANGED <<initialValues, root, incomeVars, supplierVars, pending, sf, dt>>

\* fetchImageById(imageId): the download settles; a failure is only logged
ImageDownloadDone(d, ok) ==
    /\ root = "ViewProducts"
    /\ d \in vp.downloads
    /\ vp' = [vp EXCEPT !.downloads = @ \ {d},
                        !.urlImageProduct = IF ok THEN ObjectURL(d.image) ELSE @]
    /\ UNCHANGED <<initialValues, root, incomeVars, supplierVars, pending, sf, dt>>

\* the close button of a modal header: toggle={() => toggleModal(modal)}
HeaderToggleProductModal(modal) ==
    /\ root = "ViewProducts"
    /\ vp.modals[modal]
    /\ LET newModals == ToggleProductModal(modal, "undefined") IN
       vp' = [vp EXCEPT !.modals = newModals,
                        !.forms = ProductForms(newModals, vp.selectedProduct)]
    /\ UNCHANGED <<initialValues, root, incomeVars, supplierVars, pending, sf, dt>>

\* an input of a ProductForm changes; the code is disabled in the update modal
ProductChange(modal, newValues) ==
    /\ root = "ViewProducts"
    /\ vp.forms[modal].mounted
    /\ modal = "update" => newValues.id = vp.forms[modal].values.id
    /\ newValues # vp.forms[modal].values
    /\ vp' = [vp EXCEPT !.forms[modal].values = newValues]
    /\ UNCHANGED <<initialValues, root, incomeVars, supplierVars, pending, sf, dt>>

\* the submit button of a ProductForm: editing -> submitting, gated on a valid
\* draft; the onSubmit prop is handleCreateProduct or handleUpdateProduct,
\* whose request goes out
ProductHandleSubmit(modal) ==
    /\ root = "ViewProducts"
    /\ vp.forms[modal].mounted
    /\ ~vp.forms[modal].isSubmitting
    /\ ProductIsValid(vp.forms[modal].values)
    /\ Cardinality(vp.requests) < MaxRequests
    /\ vp' = [vp EXCEPT !.forms[modal].isSubmitting = TRUE,
                        !.requests = @ \cup {[n |-> FreshRequest, kind |-> modal,
                                              data |-> vp.forms[modal].values,
                                              resp |-> <<>>]}]
    /\ UNCHANGED <<initialValues, root, incomeVars, supplierVars, pending, sf, dt>>

\* the confirmed cancel of a ProductForm: onCancel={() => toggleModal(modal, false)}
ProductConfirmCancel(modal) ==
    /\ root = "ViewProducts"
    /\ vp.forms[modal].mounted
    /\ ~vp.forms[modal].isSubmitting
    /\ LET newModals == ToggleProductModal(modal, "false") IN
       vp' = [vp EXCEPT !.modals = newModals,
                        !.forms = ProductForms(newModals, vp.selectedProduct)]
    /\ UNCHANGED <<initialValues, root, incomeVars, supplierVars, pending, sf, dt>>

\* "Cancelar" of the delete modal: toggleModal("delete", false)
CancelDelete ==
    /\ root = "ViewProducts"
    /\ vp.modals["delete"]
    /\ vp' = [vp EXCEPT !.modals = ToggleProductModal("delete", "false")]
    /\ UNCHANGED <<initialValues, root, incomeVars, supplierVars, pending, sf, dt>>

\* "Confirmar" of the delete modal: handleDeleteProduct(selectedProduct.id)
\* when a product is selected; the button is never disabled
ConfirmDelete ==
    /\ root = "ViewProducts"
    /\ vp.modals["delete"]
    /\ vp.selectedProduct # NoProduct
    /\ Cardinality(vp.requests) < MaxRequests
    /\ vp' = [vp EXCEPT !.requests = @ \cup {[n |-> FreshRequest, kind |-> "delete",
                                              data |-> vp.selectedProduct,
                                              resp |-> <<>>]}]
    /\ UNCHANGED <<initialValues, root, incomeVars, supplierVars, pending, sf, dt>>

\* handleCreateProduct, handleUpdateProduct, handleDeleteProduct that also
\* apply the change to the rows of the table themselves
ProductRequestDoneLocalUpdate(r, ok) ==
    /\ root = "ViewProducts"
    /\ r \in vp.requests /\ r.kind \in {"create", "update", "delete"}
    /\ vp.timers < MaxTimers
    /\ ok => Acceptable(vp.catalog, r)
    /\ LET newCatalog == IF ok THEN Executed(vp.catalog, r) ELSE vp.catalog
           newModals == ToggleProductModal(r.kind, "undefined")
           newSelected == IF r.kind = "create" THEN vp.selectedProduct ELSE NoProduct
       IN vp' = [vp EXCEPT
                   !.catalog = newCatalog,
                   !.products = IF ok THEN Executed(vp.products, r) ELSE @,
                   !.requests = (@ \ {r}) \cup (IF ok THEN {FetchRequest(r.n, newCatalog)} ELSE {}),
                   !.alertConfig = ProductAlert(IF ok THEN "success" ELSE "danger"),
                   !.timers = @ + 1,
                   !.modals = newModals,
                   !.selectedProduct = newSelected,
                   !.urlImageProduct = RevokeEffect(newSelected),
                   !.forms = ProductForms(newModals, newSelected)]
    /\ UNCHANGED <<initialValues, root, incomeVars, supplierVars, pending, sf, dt>>

\* handleCreateProduct, handleUpdateProduct, handleDeleteProduct: the request
\* settles.  then: showAlert('success') and handleFetchProducts(); catch:
\* handleError; finally: toggleModal(kind) and, but for create,
\* setSelectedProduct(undefined), after which the effect on [selectedProduct]
\* runs
ProductRequestDone(r, ok) ==
    /\ root = "ViewProducts"
    /\ r \in vp.requests /\ r.kind \in {"create", "update", "delete"}
    /\ vp.timers < MaxTimers
    /\ ok => Acceptable(vp.catalog, r)
    /\ LET newCatalog == IF ok THEN Executed(vp.catalog, r) ELSE vp.catalog
           newModals == ToggleProductModal(r.kind, "undefined")
           newSelected == IF r.kind = "create" THEN vp.selectedProduct ELSE NoProduct
       IN vp' = [vp EXCEPT
                   !.catalog = newCatalog,
                   !.requests = (@ \ {r}) \cup (IF ok THEN {FetchRequest(r.n, newCatalog)} ELSE {}),
                   !.alertConfig = ProductAlert(IF ok THEN "success" ELSE "danger"),
                   !.timers = @ + 1,
                   !.modals = newModals,
                   !.selectedProduct = newSelected,
                   !.urlImageProduct = RevokeEffect(newSelected),
                   !.forms = ProductForms(newModals, newSelected)]
    /\ UNCHANGED <<initialValues, root, incomeVars, supplierVars, pending, sf, dt>>

\* a timeout of handleError or showAlert fires: the alert is hidden
ProductTimerFires ==
    /\ root = "ViewProducts"
    /\ vp.timers > 0
    /\ vp' = [vp EXCEPT !.alertConfig = HiddenAlert, !.timers = @ - 1]
    /\ UNCHANGED <<initialValues, root, incomeVars, supplierVars, pending, sf, dt>>

\* ----------------------------------------- IncomeDetails and OutcomeDetails
DetailPages == {"IncomeDetails", "OutcomeDetails"}
RecordIds == 1..NumRecords

\* backend: the income and the outcome with an id.  Odd incomes come from a
\* supplier, even ones from a warehouse; every record lists one product.
Income(id) ==
    [id |-> id,
     originType |-> IF id % 2 = 1 THEN "supplier" ELSE "warehouse",
     warehouseDestiny |-> 0,
     products |-> <<((id - 1) % NumProducts) + 1>>]

Outcome(id) ==
    [id |-> id,
     originType |-> "",
     warehouseDestiny |-> id,
     products |-> <<((id - 1) % NumProducts) + 1>>]

Record(page, id) == IF page = "IncomeDetails" THEN Income(id) ELSE Outcome(id)

\* useState<IncomeData>() and useState<OutcomeData>(): undefined
Undefined == [id |-> 0, originType |-> "", warehouseDestiny |-> 0, products |-> <<>>]

\* incomeAttributes[3].label as the module is loaded, and as
\* handleFetchIncomeDisplay writes it
InitialLabel == ""
OriginLabel(income) ==
    IF income.originType = "supplier" THEN "Proveedor" ELSE "Almacén de origen"

\* The state of a details page that has just mounted, or has unmounted.  The
\* fields keep the names of the two components; label is the module-level
\* incomeAttributes[3].label, shown is the label the last render put on the
\* screen, inst counts the times a page was opened.
Unmounted(inst, label, requests) ==
    [inst |-> inst,
     incomeDetails |-> Undefined,
     incomeDisplay |-> Undefined,
     productsIncome |-> <<>>,
     outcome |-> Undefined,
     warehouseDestiny |-> 0,
     productsOutcome |-> <<>>,
     label |-> label,
     shown |-> label,
     alertConfig |-> [visible |-> FALSE, color |-> ""],
     timers |-> 0,
     requests |-> requests]

NoDetails == Unmounted(0, InitialLabel, {})

\* the requests of the two pages: the record by the id of the route, the
\* display details of the income, the warehouse by its id and the products
\* by the array of the record
RecordRequest(inst, page, id) ==
    [inst |-> inst, page |-> page, kind |-> "record", id |-> id, products |-> <<>>]
DisplayRequest(inst, id) ==
    [inst |-> inst, page |-> "IncomeDetails", kind |-> "display", id |-> id,
     products |-> <<>>]
WarehouseRequest(inst, id) ==
    [inst |-> inst, page |-> "OutcomeDetails", kind |-> "warehouse", id |-> id,
     products |-> <<>>]
ProductsRequest(inst, page, products) ==
    [inst |-> inst, page |-> page, kind |-> "products", id |-> 0, products |-> products]

\* the effect on [incomeDetails] and on [outcome] without the tests
\* if (incomeDetails) and if (outcome)
DependentRequestsUnguarded(inst, page, record) ==
    IF page = "IncomeDetails"
    THEN {ProductsRequest(inst, page, record.products)}
    ELSE {WarehouseRequest(inst, record.warehouseDestiny),
          ProductsRequest(inst, page, record.products)}

\* The effect on [incomeDetails]: handleFetchIncomeProducts(), which sends its
\* request if (incomeDetails); the effect on [outcome]: if (outcome),
\* handleFetchWarehouseDestiny() and handleFetchOutcomeProducts().  The
\* requests that go out after a render with the given record.
DependentRequests(inst, page, record) ==
    IF record = Undefined THEN {}
    ELSE IF page = "IncomeDetails"
    THEN {ProductsRequest(inst, page, record.products)}
    ELSE {WarehouseRequest(inst, record.warehouseDestiny),
          ProductsRequest(inst, page, record.products)}

\* the effects of the mount: handleFetchIncome() and handleFetchIncomeDisplay(),
\* or handleFetchOutcome(), and the effect on the record, which runs on the
\* first render too
MountRequests(inst, page, id) ==
    {RecordRequest(inst, page, id)}
      \cup (IF page = "IncomeDetails" THEN {DisplayRequest(inst, id)} ELSE {})
      \cup DependentRequests(inst, page, Undefined)

\* the request was sent by the page that is on the screen; the setters of a
\* component that has unmounted do nothing
Current(r) == r.inst = dt.inst /\ root = r.page

\* handleError of the details pages
DetailsError ==
    [dt EXCEPT !.alertConfig = [visible |-> TRUE, color |-> "danger"],
               !.timers = @ + 1,
               !.shown = dt.label]

\* the route /incomes/:id_income or /outcomes/:id_outcome is entered
OpenDetails(page, id) ==
    /\ root = "list"
    /\ dt.inst < MaxVisits
    /\ root' = page
    /\ dt' = Unmounted(dt.inst + 1, dt.label,
                       dt.requests \cup MountRequests(dt.inst + 1, page, id))
    /\ UNCHANGED <<initialValues, incomeVars, supplierVars, pending, sf, vp>>

\* handleBack: the page is left and its component unmounts; its requests stay
\* in flight
HandleBack ==
    /\ root \in DetailPages
    /\ root' = "list"
    /\ dt' = Unmounted(dt.inst, dt.label, dt.requests)
    /\ UNCHANGED <<initialValues, incomeVars, supplierVars, pending, sf, vp>>

\* handleFetchIncome and handleFetchOutcome: the request settles.  then:
\* setIncomeDetails or setOutcome, after which the effect on the record runs;
\* catch: handleError
RecordFetchDone(r, ok) ==
    /\ r \in dt.requests /\ r.kind = "record"
    /\ IF ~Current(r) THEN dt' = [dt EXCEPT !.requests = @ \ {r}]
       ELSE IF ok
       THEN LET record == Record(r.page, r.id) IN
            dt' = [dt EXCEPT
                     !.incomeDetails = IF r.page = "IncomeDetails" THEN record ELSE @,
                     !.outcome = IF r.page = "OutcomeDetails" THEN record ELSE @,
                     !.shown = dt.label,
                     !.requests = (@ \ {r}) \cup DependentRequests(r.inst, r.page, record)]
       ELSE /\ dt.timers < MaxTimers
            /\ dt' = [DetailsError EXCEPT !.requests = @ \ {r}]
    /\ UNCHANGED <<initialValues, root, incomeVars, supplierVars, pending, sf, vp>>

\* handleFetchIncomeDisplay: the request settles.  then: the label of
\* incomeAttributes[3] is written, whether the component is still mounted or
\* not, and setIncomeDisplay; catch: handleError
DisplayFetchDone(r, ok) ==
    /\ r \in dt.requests /\ r.kind = "display"
    /\ IF ok
       THEN LET label == OriginLabel(Income(r.id)) IN
            dt' = [dt EXCEPT
                     !.label = label,
                     !.incomeDisplay = IF Current(r) THEN Income(r.id) ELSE @,
                     !.shown = IF Current(r) THEN label ELSE @,
                     !.requests = @ \ {r}]
       ELSE IF ~Current(r) THEN dt' = [dt EXCEPT !.requests = @ \ {r}]
       ELSE /\ dt.timers < MaxTimers
            /\ dt' = [DetailsError EXCEPT !.requests = @ \ {r}]
    /\ UNCHANGED <<initialValues, root, incomeVars, supplierVars, pending, sf, vp>>

\* handleFetchIncomeProducts, handleFetchWarehouseDestiny and
\* handleFetchOutcomeProducts: the request settles
DependentFetchDone(r, ok) ==
    /\ r \in dt.requests /\ r.kind \in {"warehouse", "products"}
    /\ IF ~Current(r) THEN dt' = [dt EXCEPT !.requests = @ \ {r}]
       ELSE IF ok
       THEN dt' = [dt EXCEPT
                     !.warehouseDestiny = IF r.kind = "warehouse" THEN r.id ELSE @,
                     !.productsIncome = IF r.kind = "products" /\ r.page = "IncomeDetails"
                                        THEN r.products ELSE @,
                     !.productsOutcome = IF r.kind = "products" /\ r.page = "OutcomeDetails"
                                         THEN r.products ELSE @,
                     !.shown = dt.label,
                     !.requests = @ \ {r}]
       ELSE /\ dt.timers < MaxTimers
            /\ dt' = [DetailsError EXCEPT !.requests = @ \ {r}]
    /\ UNCHANGED <<initialValues, root, incomeVars, supplierVars, pending, sf, vp>>

\* a timeout of handleError fires: the alert is hidden
DetailsTimerFires ==
    /\ root \in DetailPages
    /\ dt.timers > 0
    /\ dt' = [dt EXCEPT !.alertConfig = HiddenAlert, !.timers = @ - 1,
                        !.shown = dt.label]
    /\ UNCHANGED <<initialValues, root, incomeVars, supplierVars, pending, sf, vp>>

\* ------------------------------------------------------------------- Init
\* backend: the active suppliers when the form is opened
InitialDb == <<1>>

\* IncomeForm after its first render, the three effects not yet run
InitIncome(initialData) ==
    /\ root = "IncomeForm"
    /\ initialValues = initialData
    /\ values = initialData
    /\ isSubmitting = FALSE
    /\ errors = {}
    /\ validated = <<>>
    /\ handed = <<>>
    /\ outcomes = <<>>
    /\ cancelModalOpen = FALSE
    /\ cancelled = FALSE
    /\ suppliers = <<>>
    /\ selectedSupplier = NoSupplier
    /\ display = [f \in DisplayFields |-> NoSupplier]
    /\ modals = [createSupplier |-> FALSE, createProduct |-> FALSE]
    /\ alertConfig = [visible |-> FALSE, color |-> ""]
    /\ timers = 0
    /\ db = InitialDb
    /\ mountFetch = [st |-> "idle", resp |-> <<>>]
    /\ calls = {}
    /\ pending = {"mount", "supplier", "total"}
    /\ sf = NoSupplierForm
    /\ vp = NoViewProducts
    /\ dt = NoDetails

\* ---------------------------------------------- specification SpecTotal
\* IncomeForm driven through its line items only: any initialData products
\* with any stored total, then any sequence of selections.
InitTotal ==
    \E selection \in Selections, stored \in {0, 1} :
        InitIncome([InitialValues EXCEPT !.products = selection,
                                         !.totalPrice = stored])

NextTotal ==
    \/ MountEffect
    \/ SupplierEffect
    \/ TotalEffect
    \/ \E selection \in RowChanges(values.products) : HandleProductSelect(selection)

SpecTotal == InitTotal /\ [][NextTotal]_vars

\* ------------------------------------------------------------- claim C1
\* sum(quantity * price) over the line items that carry both numbers, in tenths
RECURSIVE SumOfItems(_, _)
SumOfItems(items, n) ==
    IF n = 0 THEN 0
    ELSE SumOfItems(items, n - 1)
         + (IF items[n].quantity # NaN /\ items[n].price # NaN
            THEN items[n].quantity * items[n].price ELSE 0)

\* hundredths is the value thousandths/1000 rounded to 2 decimal places
IsRounded2(hundredths, thousandths) ==
    /\ 10 * hundredths - thousandths <= 5
    /\ thousandths - 10 * hundredths < 5

IsComplete(item) == item.quantity # NaN /\ item.price # NaN

\* sum of quantity * price over the items, all of them complete, in tenths
RECURSIVE PlainSum(_)
PlainSum(items) ==
    IF items = <<>> THEN 0
    ELSE Head(items).quantity * Head(items).price + PlainSum(Tail(items))

\* C20: a line item whose quantity or price is missing contributes 0 and is no
\* error: once the recompute has run, the total of a collection that holds such
\* an item is the total of the collection without its incomplete items, every
\* complete item contributing quantity * price.
C20_MissingOperandCountsZero ==
    (~("total" \in pending) /\ \E i \in 1..Len(values.products) :
                                   ~IsComplete(values.products[i])) =>
        /\ values.totalPrice = DerivedTotal(SelectSeq(values.products, IsComplete))
        /\ IsRounded2(values.totalPrice,
                      118 * PlainSum(SelectSeq(values.products, IsComplete)))

\* the recompute has run on an item without price followed by a complete item
\* that contributes: the total is that of the complete item alone
C20_Witness ==
    /\ Settled
    /\ Len(values.products) = 2
    /\ values.products[1].quantity = MaxQty /\ values.products[1].price = NaN
    /\ IsComplete(values.products[2]) /\ values.products[2].price > 0
    /\ values.totalPrice > 0

\* ------------------------------------------------------------ claim C21
\* the draft after one more run of the recompute
Recomputed(v) == [v EXCEPT !.totalPrice = DerivedTotal(v.products)]

\* C21: the recompute is idempotent and reaches a fixed point: once it has run,
\* a second run on the same line items would write the same totalPrice, and
\* the run itself leaves the line items as they were and does not make the
\* recompute pending again.
C21_RecomputeIsIdempotent ==
    /\ [](~("total" \in pending) => Recomputed(values) = values)
    /\ [][NextEffect = "total" =>
             /\ values'.products = values.products
             /\ "total" \notin pending']_vars

\* the recompute has run on line items whose total is not the stored one and
\* nothing is pending: the fixed point is reached
C21_Witness ==
    /\ Settled
    /\ values.products # <<>>
    /\ values.totalPrice > 0
    /\ values.totalPrice # initialValues.totalPrice
    /\ values.products = initialValues.products

\* ----------------------------------------------- specification SpecForm
\* One form on the top level, its onSubmit and onCancel props the caller's:
\* IncomeForm, new or opened on a persisted income, or SupplierForm.
InitForm ==
    \/ \E initialData \in {InitialValues, PersistedIncome(0)} : InitIncome(initialData)
    \/ /\ root = "SupplierForm"
       /\ values = InitialValues
       /\ isSubmitting = FALSE
       /\ errors = {}
       /\ validated = <<>>
       /\ handed = <<>>
       /\ outcomes = <<>>
       /\ cancelModalOpen = FALSE
       /\ cancelled = FALSE
       /\ suppliers = <<>>
       /\ selectedSupplier = NoSupplier
       /\ display = [f \in DisplayFields |-> NoSupplier]
       /\ modals = [createSupplier |-> FALSE, createProduct |-> FALSE]
       /\ alertConfig = [visible |-> FALSE, color |-> ""]
       /\ timers = 0
       /\ db = InitialDb
       /\ mountFetch = [st |-> "idle", resp |-> <<>>]
       /\ calls = {}
       /\ pending = {}
       /\ initialValues \in {SupplierInitialValues, SupplierRecord(1)}
       /\ sf = [NoSupplierForm EXCEPT !.inst = 1, !.mounted = TRUE,
                                      !.values = initialValues]
       /\ vp = NoViewProducts
       /\ dt = NoDetails

NextForm ==
    \/ MountEffect
    \/ SupplierEffect
    \/ TotalEffect
    \/ MountFetchDone(TRUE)
    \/ \E value \in IncomeIds : HandleChange("id", value)
    \/ \E value \in IncomeTypes : HandleChange("incomeType", value)
    \/ HandleDateChange("1/1/2025")
    \/ \E supplierId \in SupplierOptions : HandleSupplierChange(supplierId)
    \/ \E selection \in FewSelections : HandleProductSelect(selection)
    \/ HandleSubmit
    \/ ValidationDone
    \/ \E result \in {"resolved", "rejected"} : OnSubmitSettled(result)
    \/ OpenCancelModal
    \/ DeclineCancel
    \/ ConfirmCancel
    \/ \E newValues \in OneFieldChanges(sf.values) : SupplierChange(newValues)
    \/ SupplierHandleSubmit
    \/ \E result \in {"resolved", "rejected"} : SupplierOnSubmitSettled(result)
    \/ SupplierTimerFires
    \/ SupplierOpenCancelModal
    \/ SupplierDeclineCancel
    \/ SupplierConfirmCancel

SpecForm == InitForm /\ [][NextForm]_vars

\* ------------------------------------------------------------- claim C2
IsIncomeRecord(r) == "totalPrice" \in DOMAIN r

\* C2: every record handed to onSubmit carries the derived total of its own
\* products, and totalPrice changes only by the recompute that follows a
\* change of the line items.
C2_HandedTotalIsDerived ==
    /\ [](\A i \in 1..Len(handed) :
            IsIncomeRecord(handed[i]) =>
                IsRounded2(handed[i].totalPrice,
                           118 * SumOfItems(handed[i].products,
                                            Len(handed[i].products))))
    /\ [][values'.totalPrice # values.totalPrice => "total" \in pending]_vars

\* a form opened on initialData whose stored total is not the derived one has
\* handed over a record after the line items were changed
C2_Witness ==
    /\ initialValues = PersistedIncome(0)
    /\ 10 * initialValues.totalPrice # 118 * SumOfItems(initialValues.products, 1)
    /\ Len(handed) = 1
    /\ IsIncomeRecord(handed[1])
    /\ handed[1].products # initialValues.products

\* ------------------------------------------------------------- claim C5
\* the errors a complete validation of the record r reports, the lookup
\* answering for the backend
ErrorsOf(r) ==
    IF IsIncomeRecord(r)
    THEN {p \in {"id", "date", "totalPrice", "incomeType", "origin.id"} :
            \/ p = "id" /\ (r.id = "" \/ r.id \in ExistingIncomeIds)
            \/ p = "date" /\ r.date = ""
            \/ p = "totalPrice" /\ r.totalPrice < 0
            \/ p = "incomeType" /\ r.incomeType = ""
            \/ p = "origin.id" /\ r.origin.id = NoSupplier}
    ELSE {f \in {"id", "name", "address", "phone_number", "email", "supplier_type", "rnc"} :
            IF f = "id" THEN r.id = NoSupplier
            ELSE IF f = "email" THEN r.email \in {"", "not-an-email"}
            ELSE r[f] = ""}

\* C5: onSubmit is invoked only with a draft on which validation reports no
\* error on any field: no invalid record reaches the caller.
C5_OnlyValidRecordsHanded ==
    \A i \in 1..Len(handed) : ErrorsOf(handed[i]) = {}

\* ------------------------------------------------------------- claim C6
\* C6: within one form instance at most one call of onSubmit is in flight.
C6_OneSubmissionInFlight == Len(handed) <= 1

\* a second submission of the same form is in flight after the first settled
C6_Witness ==
    /\ Len(handed) = 1
    /\ Len(outcomes) >= 1
    /\ isSubmitting \/ sf.isSubmitting

\* ------------------------------------------------------------- claim C7
Rejected == Len(outcomes') = Len(outcomes) + 1 /\ outcomes'[Len(outcomes')] = "rejected"
Resolved == Len(outcomes') = Len(outcomes) + 1 /\ outcomes'[Len(outcomes')] = "resolved"

\* C7: when the onSubmit promise rejects, the step leaves every field value of
\* the draft as it was and the form is back in editing, the submit trigger
\* enabled; a later submission the caller accepts is completed the same way.
C7_FailureKeepsDraft ==
    [][/\ Rejected => /\ values' = values
                      /\ sf'.values = sf.values
                      /\ ~isSubmitting' /\ ~sf'.isSubmitting
       /\ Resolved => ~isSubmitting' /\ ~sf'.isSubmitting]_vars

\* a submission was rejected and the next one of the same form resolved
C7_Witness ==
    /\ outcomes = <<"rejected", "resolved">>
    /\ ~isSubmitting /\ ~sf.isSubmitting

\* ------------------------------------------------------------- claim C8
\* C8: when the onSubmit promise resolves, the form clears the draft: its
\* field values are the initial values again.
C8_SuccessClearsDraft ==
    [][Resolved => IF root = "IncomeForm" THEN values' = initialValues
                   ELSE sf'.values = initialValues]_vars

\* ------------------------------------------------------------ claim C12
\* the step in which the validation of a submit attempt of IncomeForm completes
ValidationCompletes == validated # <<>> /\ validated' = Tail(validated)

\* the id lookup succeeded and reported that the identifier does not exist
IdIsFree(run) ==
    /\ run.values.id # ""
    /\ run.values.id \notin ExistingIncomeIds
    /\ run.lookup # "failed"

\* C12: the uniqueness check of the id fails closed: the id field is reported
\* invalid and nothing is handed to onSubmit when the identifier is empty, when
\* the backend reports that it exists and when the lookup itself fails; the id
\* is accepted only when the lookup succeeds and reports no such identifier.
C12_UniquenessFailsClosed ==
    [][ValidationCompletes =>
          /\ ("id" \in errors') <=> ~IdIsFree(Head(validated))
          /\ ~IdIsFree(Head(validated)) => handed' = handed /\ ~isSubmitting']_vars

\* a draft with an unused id and no other defect was refused because its
\* lookup failed: the id is reported invalid, nothing was handed over
C12_Witness ==
    /\ root = "IncomeForm"
    /\ values.id \notin ExistingIncomeIds \cup {""}
    /\ SyncErrors(values) = {}
    /\ errors = {"id"}
    /\ ~isSubmitting
    /\ validated = <<>> /\ handed = <<>> /\ outcomes = <<>>

\* ------------------------------------------------------------ claim C13
\* a Supplier record whose only defect is an email without email shape
OnlyEmailDefect(r) ==
    /\ r.email = "not-an-email"
    /\ r.id # NoSupplier
    /\ \A f \in {"name", "address", "phone_number", "supplier_type", "rnc"} : r[f] # ""

\* C13: for a Supplier draft whose only defect is an email without email
\* shape, validation reports exactly one error, on the email field, and no
\* step taken with that draft invokes onSubmit.
C13_InvalidEmailBlocksSubmit ==
    [][(root = "SupplierForm" /\ OnlyEmailDefect(sf'.values)) =>
          /\ sf'.errors = {"email"}
          /\ OnlyEmailDefect(sf.values) => Len(handed') <= Len(handed)]_vars

\* after a submission went through, the email of the draft was spoilt: the
\* one error is reported and nothing is in flight
C13_Witness ==
    /\ root = "SupplierForm"
    /\ OnlyEmailDefect(sf.values)
    /\ sf.errors = {"email"}
    /\ Len(outcomes) = 1
    /\ handed = <<>>

\* ------------------------------------------------------------ claim C14
\* the requests in flight and the calls of the caller's callbacks so far
RequestsAndCallbacks == <<validated, handed, outcomes, calls, mountFetch, db>>

\* the drafts of the two forms
Drafts == <<values, sf.values>>

\* C14: onCancel is invoked only by a step taken while the confirmation dialog
\* is open, and that step issues no request and invokes no other callback;
\* the step that closes the dialog without confirming leaves the draft as it was
\* and the form on the screen.
C14_CancelNeedsConfirmation ==
    [][/\ (cancelled' /\ ~cancelled) =>
              /\ cancelModalOpen \/ sf.cancelModalOpen
              /\ RequestsAndCallbacks' = RequestsAndCallbacks
       /\ ((cancelModalOpen /\ ~cancelModalOpen') \/ (sf.cancelModalOpen /\ ~sf'.cancelModalOpen)) =>
              /\ Drafts' = Drafts
              /\ ~cancelled' /\ root' = root
              /\ RequestsAndCallbacks' = RequestsAndCallbacks]_vars

\* the cancel of an edited draft was confirmed in the open dialog
C14_Witness ==
    /\ cancelled
    /\ root = "closed"
    /\ values # initialValues \/ sf.values # initialValues
    /\ cancelModalOpen \/ sf.cancelModalOpen

\* ------------------------------------------------------------ claim C15
\* C15: every submission failure makes an error notification visible, and a
\* visible notification has a timer pending that hides it with no user action.
\* Refuted for IncomeForm: the catch of its onSubmit option only logs.
C15_FailureIsNotified ==
    /\ [](sf.showErrorAlert => sf.timers > 0)
    /\ [](alertConfig.visible => timers > 0)
    /\ [][Rejected => alertConfig'.visible \/ sf'.showErrorAlert]_vars

\* ------------------------------------------------------------ claim C19
\* the synchronous rules pass on every field but the line items and the total
OtherFieldsValid(v) ==
    v.id # "" /\ v.date # "" /\ v.incomeType # "" /\ v.origin.id # NoSupplier

\* C19: with zero selected rows the derived totalPrice is 0, and the empty
\* collection raises no validation error: no error is reported on the line
\* items or on the total, and a draft without line items whose other fields
\* are valid and whose id is free is handed to onSubmit.
C19_EmptySelectionAccepted ==
    /\ []((root = "IncomeForm" /\ values.products = <<>> /\ "total" \notin pending) =>
              values.totalPrice = 0)
    /\ [][(ValidationCompletes /\ Head(validated).values.products = <<>>) =>
              /\ errors' \cap {"products", "totalPrice"} = {}
              /\ (OtherFieldsValid(Head(validated).values) /\ IdIsFree(Head(validated))) =>
                     Len(handed') = Len(handed) + 1]_vars

\* the line items of a persisted income were all deselected, the total was
\* recomputed to 0 and the draft was handed to onSubmit
C19_Witness ==
    /\ root = "IncomeForm"
    /\ initialValues.products # <<>>
    /\ values.products = <<>>
    /\ values.totalPrice = 0
    /\ Len(handed) = 1
    /\ handed[1].products = <<>> /\ handed[1].totalPrice = 0

\* ------------------------------------------------------------ claim C23
\* C23: a validation whose exists-check reported the id as present hands
\* nothing to onSubmit and reports the id; so a form opened on a persisted
\* income whose id is left as it is cannot be submitted.
C23_ExistingIdNeverHanded ==
    [][(ValidationCompletes /\ Head(validated).lookup = "exists") =>
          /\ Len(handed') = Len(handed)
          /\ "id" \in errors'
          /\ ~isSubmitting']_vars

\* the form was opened on a persisted income, the id was left, the submission
\* was refused on the id alone and nothing was handed over
C23_Witness ==
    /\ root = "IncomeForm"
    /\ initialValues.id \in ExistingIncomeIds
    /\ values.id = initialValues.id
    /\ SyncErrors(values) = {}
    /\ errors = {"id"}
    /\ validated = <<>> /\ handed = <<>> /\ outcomes = <<>>
    /\ ~isSubmitting

\* --------------------------------------------- specification SpecNested
\* IncomeForm, opened on a persisted income, with its supplier list, its
\* supplier selection and the nested SupplierForm of the createSupplier modal,
\* whose drafts are entered whole.
InitNested == InitIncome(PersistedIncome(0))

NestedDrafts == {SupplierRecord(code) : code \in SupplierIds}

NextNested ==
    \/ MountEffect
    \/ SupplierEffect
    \/ TotalEffect
    \/ \E ok \in BOOLEAN : MountFetchDone(ok)
    \/ TimerFires
    \/ \E supplierId \in SupplierOptions : HandleSupplierChange(supplierId)
    \/ OpenCreateSupplier
    \/ HeaderToggleCreateSupplier
    \/ \E newValues \in NestedDrafts : SupplierChange(newValues)
    \/ SupplierHandleSubmit
    \/ \E c \in calls, ok \in BOOLEAN : CreateSupplierDone(c, ok)
    \/ \E c \in calls, ok \in BOOLEAN : SuppliersRefetched(c, ok)

SpecNested == InitNested /\ [][NextNested]_vars

\* ------------------------------------------------------------- claim C3
\* C3: whenever the pending effects have settled, selectedSupplier is the
\* entry of the cached list whose id is the draft's origin.id, or null when
\* no entry matches, the list not yet loaded included.  Refuted: the last
\* step of handleCreateSupplier sets selectedSupplier from the response, and
\* when neither origin.id nor the list changes with it the effect of lines
\* 208-212 does not run again.
C3_SelectedIsResolved ==
    Settled =>
        IF InList(suppliers, values.origin.id)
        THEN selectedSupplier = values.origin.id
        ELSE selectedSupplier = NoSupplier

\* ------------------------------------------------------------- claim C4
\* C4: whenever selectedSupplier is null the five dependent inputs (address,
\* email, RNC, phone number, supplier type) show empty values, never the data
\* of the supplier resolved before.
C4_NoStaleSupplierData ==
    (Settled /\ selectedSupplier = NoSupplier) =>
        \A f \in DisplayFields : display[f] = NoSupplier

\* ------------------------------------------------------------- claim C9
\* the step in which a handleCreateSupplier call processes its last response
CreateFlowCompletes(c) == c \in calls /\ c.pc = "fetch" /\ c \notin calls'

\* C9: when the nested create-supplier flow has succeeded and its requests
\* are completed, the cached list holds the new supplier, as its one new
\* entry, and the parent is selected on it, also when the follow-up list
\* fetch failed.
C9_CreatedSupplierCachedAndSelected ==
    [][\A c \in calls :
          CreateFlowCompletes(c) =>
              /\ InList(suppliers', c.data)
              /\ mountFetch.st = "done" /\ suppliers # <<>> =>
                     suppliers' = Append(suppliers, c.data)
              /\ values'.origin.id = c.data
              /\ selectedSupplier' = c.data]_vars

\* ------------------------------------------------------------ claim C10
\* the step in which the create request of a handleCreateSupplier call fails
CreateFails(c) ==
    /\ c \in calls /\ c.pc = "create"
    /\ \A d \in calls' : d.inst # c.inst

\* C10: when the nested create-supplier request fails, the step leaves the
\* cached list, origin.id, selectedSupplier and the other draft fields as they
\* were and an error notification is visible.
C10_CreateFailureLeavesParent ==
    [][\A c \in calls :
          CreateFails(c) =>
              /\ suppliers' = suppliers
              /\ values' = values
              /\ selectedSupplier' = selectedSupplier
              /\ alertConfig' = [visible |-> TRUE, color |-> "danger"]]_vars

\* the list was loaded, a supplier is selected, and a create request has
\* failed: the danger alert is up, no call is left, the modal is closed
C10_Witness ==
    /\ suppliers # <<>>
    /\ selectedSupplier # NoSupplier
    /\ calls = {}
    /\ alertConfig = [visible |-> TRUE, color |-> "danger"]
    /\ ~modals.createSupplier
    /\ mountFetch.st = "done"

\* ------------------------------------------------------------ claim C17
\* the steps in which a fetchSuppliers call fails: its catch runs handleError,
\* which sets one more timeout than the step sets otherwise
MountFetchFails ==
    /\ mountFetch.st = "inflight" /\ mountFetch'.st = "done"
    /\ timers' = timers + 1
FollowUpFetchFails(c) == CreateFlowCompletes(c) /\ timers' = timers + 2

\* C17: when a fetch of the suppliers fails, the cached list keeps the value
\* it had and an error notification is visible after the step.  Refuted: when
\* the fetch inside handleCreateSupplier fails, the handler goes on and
\* replaces the error alert by its success alert in the same step.
C17_FetchFailureIsNotified ==
    [][(MountFetchFails \/ \E c \in calls : FollowUpFetchFails(c)) =>
          /\ suppliers' = suppliers
          /\ alertConfig' = [visible |-> TRUE, color |-> "danger"]]_vars

\* ------------------------------------------------------------ claim C18
\* the steps in which a fetchSuppliers call succeeds, with the list fetched
MountFetchSucceeds ==
    /\ mountFetch.st = "inflight" /\ mountFetch'.st = "done"
    /\ timers' = timers
FollowUpFetchSucceeds(c) == CreateFlowCompletes(c) /\ timers' = timers + 1

Dismissed(c) == ~(sf.mounted /\ sf.inst = c.inst)

\* C22: a request in flight is not cancelled when the createSupplier overlay
\* is dismissed: the accepted create goes on to the list fetch, and the last
\* response is applied to the parent, the new supplier selected, origin.id
\* set, the fetched list stored and the modal flag toggled.
C22_DismissedRequestStillApplied ==
    [][\A c \in calls :
          Dismissed(c) =>
              /\ (c.pc = "create" /\ c \notin calls' /\ ~CreateFails(c)) =>
                     \E d \in calls' : d.inst = c.inst /\ d.pc = "fetch" /\ d.data = c.data
              /\ CreateFlowCompletes(c) =>
                     /\ selectedSupplier' = c.data
                     /\ values'.origin.id = c.data
                     /\ modals'.createSupplier = ~modals.createSupplier
                     /\ FollowUpFetchSucceeds(c) => suppliers' = c.resp]_vars

\* the response of a dismissed overlay was applied: the supplier it created
\* is selected and listed, and the toggle has opened the modal again on an
\* empty form
C22_Witness ==
    /\ calls = {}
    /\ Settled
    /\ modals.createSupplier
    /\ sf.mounted /\ sf.values = SupplierInitialValues
    /\ selectedSupplier # NoSupplier
    /\ selectedSupplier # initialValues.origin.id
    /\ InList(suppliers, selectedSupplier)
    /\ alertConfig = [visible |-> TRUE, color |-> "success"]

\* ------------------------------------------------------------ claim C27
\* C27: a notification is dismissed only by its own timer.  The timeouts have
\* one delay and fire in the order they were set, so the timer of the alert
\* on the screen is the last one pending: when a step hides the alert, no
\* timer is left.  Refuted: the callback of every timeout hides whatever
\* alert is shown.
C27_HiddenByOwnTimerOnly ==
    [][(alertConfig.visible /\ ~alertConfig'.visible) => timers' = 0]_vars

\* ------------------------------------------------------------ claim C11
\* C11: in the state that follows the completion of a modal-driven request,
\* succeeded or failed, its overlay is closed, whatever the user did while the
\* request was in flight.  Refuted: handleCreateSupplier ends with
\* toggleModal("createSupplier"), which inverts the flag, and the header of the
\* modal can close it while the request is in flight.
C11_OverlayClosedAfterRequest ==
    [][\A c \in calls :
          (CreateFlowCompletes(c) \/ CreateFails(c)) => ~modals'.createSupplier]_vars

\* -------------------------------------------- specification SpecProducts
\* backend: the catalog when the page is opened
InitialCatalog == <<[id |-> 1, name |-> "a", image |-> 0, status |-> TRUE]>>

\* The page ViewProducts after its mount effect: handleFetchProducts() is out.
InitViewProducts(catalog) ==
    /\ root = "ViewProducts"
    /\ initialValues = InitialValues
    /\ values = InitialValues
    /\ isSubmitting = FALSE
    /\ errors = {}
    /\ validated = <<>>
    /\ handed = <<>>
    /\ outcomes = <<>>
    /\ cancelModalOpen = FALSE
    /\ cancelled = FALSE
    /\ suppliers = <<>>
    /\ selectedSupplier = NoSupplier
    /\ display = [f \in DisplayFields |-> NoSupplier]
    /\ modals = [createSupplier |-> FALSE, createProduct |-> FALSE]
    /\ alertConfig = [visible |-> FALSE, color |-> ""]
    /\ timers = 0
    /\ db = InitialDb
    /\ mountFetch = [st |-> "idle", resp |-> <<>>]
    /\ calls = {}
    /\ pending = {}
    /\ sf = NoSupplierForm
    /\ vp = [mounted |-> TRUE,
             catalog |-> catalog,
             products |-> <<>>,
             selectedProduct |-> NoProduct,
             urlImageProduct |-> NoImage,
             downloads |-> {},
             alertConfig |-> [visible |-> FALSE, color |-> ""],
             modals |-> [m \in ModalNames |-> FALSE],
             timers |-> 0,
             requests |-> {FetchRequest(1, catalog)},
             forms |-> [m \in FormModals |-> NoProductForm]]
    /\ dt = NoDetails

\* The catalog has no images and the details modal, which sends no other
\* request, stays closed.
InitProducts == InitViewProducts(InitialCatalog)

\* the modals that send a request, and the drafts entered whole
ActionModals == {"create", "update", "delete"}
WholeProductDrafts == {d \in ProductDrafts : ProductIsValid(d)}

NextProducts ==
    \/ \E r \in vp.requests, ok \in BOOLEAN : FetchProductsDone(r, ok)
    \/ ClickAddProduct
    \/ \E modal \in ActionModals, row \in ProductRows : HandleClicModal(modal, row)
    \/ \E modal \in ActionModals : HeaderToggleProductModal(modal)
    \/ \E modal \in FormModals, newValues \in WholeProductDrafts :
          ProductChange(modal, newValues)
    \/ \E modal \in FormModals : ProductHandleSubmit(modal)
    \/ \E modal \in FormModals : ProductConfirmCancel(modal)
    \/ CancelDelete
    \/ ConfirmDelete
    \/ \E r \in vp.requests, ok \in BOOLEAN : ProductRequestDone(r, ok)
    \/ ProductTimerFires

SpecProducts == InitProducts /\ [][NextProducts]_vars


\* -------------------------------------------------- specification SpecDetails
\* The list pages, from which the details of an income or of an outcome are
\* opened and left again.
InitDetails ==
    /\ root = "list"
    /\ initialValues = InitialValues
    /\ values = InitialValues
    /\ isSubmitting = FALSE
    /\ errors = {}
    /\ validated = <<>>
    /\ handed = <<>>
    /\ outcomes = <<>>
    /\ cancelModalOpen = FALSE
    /\ cancelled = FALSE
    /\ suppliers = <<>>
    /\ selectedSupplier = NoSupplier
    /\ display = [f \in DisplayFields |-> NoSupplier]
    /\ modals = [createSupplier |-> FALSE, createProduct |-> FALSE]
    /\ alertConfig = [visible |-> FALSE, color |-> ""]
    /\ timers = 0
    /\ db = InitialDb
    /\ mountFetch = [st |-> "idle", resp |-> <<>>]
    /\ calls = {}
    /\ pending = {}
    /\ sf = NoSupplierForm
    /\ vp = NoViewProducts
    /\ dt = NoDetails

NextDetails ==
    \/ \E page \in DetailPages, id \in RecordIds : OpenDetails(page, id)
    \/ HandleBack
    \/ \E r \in dt.requests, ok \in BOOLEAN : RecordFetchDone(r, ok)
    \/ \E r \in dt.requests, ok \in BOOLEAN : DisplayFetchDone(r, ok)
    \/ \E r \in dt.requests, ok \in BOOLEAN : DependentFetchDone(r, ok)
    \/ DetailsTimerFires

SpecDetails == InitDetails /\ [][NextDetails]_vars

\* ------------------------------------------------------------ claim C24
\* the requests of the page on the screen that depend on its record
DependentOf(requests) ==
    {r \in requests : r.kind \in {"warehouse", "products"}}

\* the record the page on the screen has loaded
LoadedRecord(d, page) == IF page = "IncomeDetails" THEN d.incomeDetails ELSE d.outcome

\* C24: a details page sends its dependent requests only in the step in which
\* its record fetch completes with the record, and they carry the warehouse
\* and the products of that record: OutcomeDetails sends the request of the
\* warehouse and that of the products, IncomeDetails that of the products.
\* While they are in flight the page holds the record they were made from.  A
\* step in which the record fetch fails, and the mount itself, send none.
C24_DependentsFollowTheRecord ==
    /\ [](\A r \in DependentOf(dt.requests) : Current(r) =>
             /\ LoadedRecord(dt, r.page) # Undefined
             /\ r.kind = "products" => r.products = LoadedRecord(dt, r.page).products
             /\ r.kind = "warehouse" => r.id = LoadedRecord(dt, r.page).warehouseDestiny)
    /\ [][LET new == DependentOf(dt'.requests) \ DependentOf(dt.requests)
              loads == {r \in dt.requests \ dt'.requests :
                           /\ r.kind = "record" /\ r.inst = dt'.inst /\ r.page = root'
                           /\ LoadedRecord(dt', r.page) = Record(r.page, r.id)}
          IN /\ new # {} => loads # {}
             /\ \A r \in loads :
                   new = IF r.page = "IncomeDetails"
                         THEN {ProductsRequest(r.inst, r.page, Record(r.page, r.id).products)}
                         ELSE {WarehouseRequest(r.inst, Record(r.page, r.id).warehouseDestiny),
                               ProductsRequest(r.inst, r.page, Record(r.page, r.id).products)}
         ]_vars

\* outcome 2 is loaded and the requests of its warehouse and of its products
\* are in flight
C24_Witness ==
    /\ root = "OutcomeDetails"
    /\ dt.outcome = Outcome(2)
    /\ WarehouseRequest(dt.inst, 2) \in dt.requests
    /\ ProductsRequest(dt.inst, "OutcomeDetails", Outcome(2).products) \in dt.requests

\* ------------------------------------------------------------ claim C26
\* C26: whenever the details panel of IncomeDetails is rendered, the label of
\* the origin field on the screen is "Proveedor" if the origin of the fetched
\* income is a supplier and "Almacén de origen" otherwise.  Refuted: the
\* label is a field of a module-level array that only a completed display
\* fetch writes.
C26_LabelMatchesIncome ==
    (root = "IncomeDetails" /\ dt.incomeDetails # Undefined)
        => dt.shown = OriginLabel(dt.incomeDetails)
\* --------------------------------------------------- specification SpecImages
\* ViewProducts on a catalog of products with and without an image: the rows
\* are opened in the details and update modals and their images downloaded
ImageCatalogs ==
    {catalog \in [1..NumProducts -> [id : ProductIds, name : {"a"},
                                     image : {0} \cup ProductIds, status : {TRUE}]] :
        \A i \in 1..NumProducts :
            catalog[i].id = i /\ catalog[i].image \in {0, i}}

InitImages == \E catalog \in ImageCatalogs : InitViewProducts(catalog)

ImageModals == {"details", "update"}

NextImages ==
    \/ \E r \in vp.requests, ok \in BOOLEAN : FetchProductsDone(r, ok)
    \/ \E modal \in ImageModals, row \in ProductRows : HandleClicModal(modal, row)
    \/ \E modal \in ImageModals : HeaderToggleProductModal(modal)
    \/ \E d \in vp.downloads, ok \in BOOLEAN : ImageDownloadDone(d, ok)
    \/ ProductTimerFires

SpecImages == InitImages /\ [][NextImages]_vars

\* ------------------------------------------------------------ claim C25
\* C25: whenever the details or update modal is open for a product, the image
\* on the screen is none or one made by a download of that product's image.
\* Refuted: urlImageProduct is set by whichever download completes and is
\* never emptied.
C25_ImageIsOfSelectedProduct ==
    (/\ vp.mounted
     /\ vp.modals["details"] \/ vp.modals["update"]
     /\ vp.selectedProduct # NoProduct)
        => vp.urlImageProduct.image \in {0, vp.selectedProduct.image}

\* ------------------------------------------------------------ claim C16
\* the step in which the request r of ViewProducts completes with a failure
ProductRequestFails(r) ==
    /\ r \in vp.requests
    /\ \A q \in vp'.requests : q.n # r.n
    /\ vp'.alertConfig = ProductAlert("danger")

\* C16: when a create or update request of ViewProducts fails, the product
\* form stays available with the values the user entered.  Refuted: the
\* finally block toggles the modal, the form is unmounted and its draft is gone.
C16_FailureKeepsProductDraft ==
    [][\A r \in vp.requests :
          (r.kind \in FormModals /\ ProductRequestFails(r)) =>
              /\ vp'.modals[r.kind]
              /\ vp'.forms[r.kind].mounted
              /\ vp'.forms[r.kind].values = r.data]_vars

\* ------------------------------------------------------------ claim C28
\* a create, update or delete request leaves the requests in flight
ProductRequestSettles(r) ==
    /\ r \in vp.requests /\ r.kind \in {"create", "update", "delete"}
    /\ r \notin vp'.requests

\* the list fetch that follows the request r is in flight
RefetchIssued(r) ==
    \E f \in vp'.requests \ vp.requests : f.kind = "fetch" /\ f.resp = vp'.catalog

\* C28: the rows of the table change only when a list fetch completes, and
\* then to the answer of that fetch.  A create, update or delete request that
\* settles leaves the rows as they are and either shows the success alert and
\* issues a list fetch, or shows the danger alert and issues none; the one the
\* backend executed is of the first kind.
C28_ListChangesOnlyByFetch ==
    [][(vp.mounted /\ vp'.mounted) =>
         /\ vp'.products # vp.products =>
               \E f \in vp.requests \ vp'.requests :
                   f.kind = "fetch" /\ vp'.products = f.resp
         /\ \A r \in vp.requests : ProductRequestSettles(r) =>
               /\ vp'.products = vp.products
               /\ vp'.alertConfig.visible
               /\ \/ /\ vp'.alertConfig.color = "success"
                     /\ RefetchIssued(r)
                  \/ /\ vp'.alertConfig.color = "danger"
                     /\ vp'.requests = vp.requests \ {r}
                     /\ vp'.catalog = vp.catalog
               /\ vp'.catalog # vp.catalog => vp'.alertConfig.color = "success"]_vars

\* a product has been created: the success alert is shown, the list fetch is
\* in flight and the table still shows the rows of before
C28_Witness ==
    /\ vp.mounted
    /\ vp.alertConfig = ProductAlert("success")
    /\ Len(vp.catalog) = Len(vp.products) + 1
    /\ vp.products # <<>>
    /\ \E f \in vp.requests : f.kind = "fetch" /\ f.resp = vp.catalog

====
